---- MODULE Spec2Model ----
(***************************************************************************)
(* The storyteller multi-agent voice session of main.py: a lead editor     *)
(* gathers story facts through tools, hands the session off to a           *)
(* specialist editor, and the specialist ends the call with                *)
(* story_finished.  The tools, the state record and the entrypoint are     *)
(* translated from main.py; the session runtime they call into (reply      *)
(* queue, tool router, handoff controller) is not part of main.py and is   *)
(* modelled from the written specification.                                *)
(***************************************************************************)
EXTENDS Integers, Sequences, FiniteSets, TLC

\* ---------------------------------------------------------------- bounds
Sessions == {1, 2}
MaxCalls == 3         \* tool calls of a run of Spec
MaxCallsConc == 2     \* tool calls of a run of SpecConc, all sessions together
MaxTurnLen == 2       \* tool calls the model may issue in one turn
MaxUser == 1          \* user utterances of a run
Speakers == {1}       \* the sessions whose user speaks; the others only listen

NameArgs == {"Ann", "Bob"}
BackgroundArgs == {"pilot"}
LocationArgs == {"Oslo", "Rome"}
ThemeArgs == {"loss", "hope"}
None == "None"

VARIABLES
    jobs,       \* the jobs the worker has been given (one session each)
    room,       \* room of each job: "none" (not connected), "open", "deleted"
    userdata,   \* session.userdata: the StoryData record of each session
    agents,     \* the Agent instances constructed in each session, in order
    active,     \* index into agents of the session's active agent (0: none)
    activated,  \* the agent instances that became active, in order
    chat_ctx,   \* session._chat_ctx: the conversation history
    speech,     \* the reply queue (head is playing), what started playing,
                \* how many replies ended
    turn,       \* the model turn in progress: tool calls left, directives
    sf,         \* the story_finished coroutine: pc, events, farewell status,
                \* whether its interrupt() found nothing in flight
    deletes,    \* number of delete_room requests issued
    result,     \* outcome of the last tool call, as the router reports it
    budget,     \* tool calls and user utterances still allowed (bound)
    callLog,    \* arguments of the character and location calls, in call
                \* order, and of the last theme call
    handoff     \* the last handoff: history before and after it, the turn's
                \* directives, the calls recorded before it

vars == <<jobs, room, userdata, agents, active, activated, chat_ctx, speech,
          turn, sf, deletes, result, budget, callLog, handoff>>

\* ------------------------------------------------------------ data model
\* main.py:46-52
CharacterData(name, background) == [name |-> name, background |-> background]

\* main.py:55-62: every StoryData() has its own empty lists (default_factory)
StoryData == [characters |-> <<>>, locations |-> <<>>, theme |-> None]

\* main.py:65-77
LeadEditorAgent == [kind |-> "lead", specialty |-> None, chat_ctx |-> <<>>]

SpecialistEditorAgent_Cold(specialty, ctx) ==
    [kind |-> "specialist", specialty |-> specialty, chat_ctx |-> <<>>]

\* main.py:178-187: the specialist is seeded with the chat_ctx it is given
SpecialistEditorAgent(specialty, ctx) ==
    [kind |-> "specialist", specialty |-> specialty, chat_ctx |-> ctx]

\* The tools each agent class registers with @function_tool
LeadTools == {"character_introduction", "location_introduction",
              "theme_introduction", "detected_childrens_book", "detected_novel"}

SpecialistTools == {"character_introduction", "location_introduction",
                    "theme_introduction", "story_finished"}

AllTools == LeadTools \cup SpecialistTools

ToolsOf(agent) == IF agent.kind = "lead" THEN LeadTools ELSE SpecialistTools

Announcement == "Let's switch to the children's book editor."

\* ------------------------------------------------- session runtime (replies)
Reply(a) == [kind |-> "reply", agent |-> a, allow_interruptions |-> TRUE]

AnnouncementTurn(a) ==
    [kind |-> "announcement", agent |-> a, allow_interruptions |-> TRUE]

GenerateReply_StartsAtOnce(sp, item) ==
    [queue |-> Append(sp.queue, item),
     played |-> Append(sp.played, item),
     ended |-> sp.ended]

\* generate_reply: the reply is queued; it starts playing when it is the head
GenerateReply(sp, item) ==
    [queue |-> Append(sp.queue, item),
     played |-> IF sp.queue = <<>> THEN Append(sp.played, item) ELSE sp.played,
     ended |-> sp.ended]

Interrupt_AlwaysEnds(sp) ==
    [sp EXCEPT !.queue = <<>>, !.ended = @ + 1]

\* interrupt(): cancels whatever is in flight (the playing reply ends, the
\* queued ones never start); nothing in flight: no change
Interrupt(sp) ==
    [sp EXCEPT !.queue = <<>>,
               !.ended = IF sp.queue = <<>> THEN @ ELSE @ + 1]

\* the head reply ends (played out or cut short); the next one starts
Finish(sp) ==
    [queue |-> Tail(sp.queue),
     played |-> IF Len(sp.queue) > 1 THEN Append(sp.played, sp.queue[2])
                ELSE sp.played,
     ended |-> sp.ended + 1]

NoCalls == [characters |-> <<>>, locations |-> <<>>, theme |-> None]
NoHandoff == [lead |-> <<>>, visible |-> <<>>, directives |-> <<>>,
              recorded |-> NoCalls]
NoSpeech == [queue |-> <<>>, played |-> <<>>, ended |-> 0]
NoTurn == [open |-> FALSE, agent |-> 0, left |-> 0, directives |-> <<>>]
NoSf == [pc |-> "idle", log |-> <<>>, farewell |-> "none", outcome |-> "none",
         quiet |-> FALSE]

\* ------------------------------------------------------------------- Init
InitWith(js, allowed) ==
    /\ jobs = js
    /\ room = [s \in Sessions |-> "none"]
    /\ userdata = [s \in Sessions |-> StoryData]
    /\ agents = [s \in Sessions |-> <<>>]
    /\ active = [s \in Sessions |-> 0]
    /\ activated = [s \in Sessions |-> <<>>]
    /\ chat_ctx = [s \in Sessions |-> <<>>]
    /\ speech = [s \in Sessions |-> NoSpeech]
    /\ turn = [s \in Sessions |-> NoTurn]
    /\ sf = [s \in Sessions |-> NoSf]
    /\ deletes = [s \in Sessions |-> 0]
    /\ result = [s \in Sessions |-> "none"]
    /\ budget = allowed
    /\ callLog = [s \in Sessions |-> NoCalls]
    /\ handoff = [s \in Sessions |-> NoHandoff]

\* One session
Init == InitWith({1}, [calls |-> MaxCalls, user |-> MaxUser])

\* Two concurrent sessions in one worker
InitConc == InitWith(Sessions, [calls |-> MaxCallsConc, user |-> MaxUser])

\* main.py:79-82
LeadOnEnter(sp, a) == GenerateReply(sp, Reply(a))

\* main.py:189-192
SpecialistOnEnter(sp, a) == GenerateReply(sp, Reply(a))

Entrypoint_StartsSpecialist(s) ==
    /\ s \in jobs
    /\ room[s] = "none"
    /\ room' = [room EXCEPT ![s] = "open"]
    /\ userdata' = [userdata EXCEPT ![s] = StoryData]
    /\ agents' = [agents EXCEPT ![s] = <<SpecialistEditorAgent("novels", <<>>)>>]
    /\ active' = [active EXCEPT ![s] = 1]
    /\ activated' = [activated EXCEPT ![s] = <<1>>]
    /\ speech' = [speech EXCEPT ![s] = SpecialistOnEnter(NoSpeech, 1)]
    /\ UNCHANGED <<jobs, chat_ctx, turn, sf, deletes, result, budget, callLog,
                   handoff>>

\* main.py:273-307: connect, create the session with a fresh StoryData(),
\* start it with a new LeadEditorAgent, whose on_enter generates a reply
Entrypoint(s) ==
    /\ s \in jobs
    /\ room[s] = "none"
    /\ room' = [room EXCEPT ![s] = "open"]
    /\ userdata' = [userdata EXCEPT ![s] = StoryData]
    /\ agents' = [agents EXCEPT ![s] = <<LeadEditorAgent>>]
    /\ active' = [active EXCEPT ![s] = 1]
    /\ activated' = [activated EXCEPT ![s] = <<1>>]
    /\ speech' = [speech EXCEPT ![s] = LeadOnEnter(NoSpeech, 1)]
    /\ UNCHANGED <<jobs, chat_ctx, turn, sf, deletes, result, budget, callLog,
                   handoff>>

\* ------------------------------------------------------- model turn, router
\* The reply of the active agent that is being generated issues a turn of n
\* tool calls; they run one after the other
ModelTurn(s, n) ==
    /\ room[s] = "open"
    /\ ~turn[s].open
    /\ sf[s].pc = "idle"
    /\ n \in 1..MaxTurnLen
    /\ n <= budget.calls
    /\ speech[s].queue /= <<>>
    /\ Head(speech[s].queue).kind = "reply"
    /\ Head(speech[s].queue).agent = active[s]
    /\ turn' = [turn EXCEPT ![s] = [open |-> TRUE, agent |-> active[s], left |-> n,
                              directives |-> <<>>]]
    /\ UNCHANGED <<jobs, room, userdata, agents, active, activated, chat_ctx,
                   speech, sf, deletes, result, budget, callLog, handoff>>

\* The router resolves the next tool call of the turn against the tools of
\* the active agent, which is of class `kind`
CanCall(s, kind, tool) ==
    /\ room[s] = "open"
    /\ turn[s].open
    /\ turn[s].left > 0
    /\ sf[s].pc = "idle"
    /\ budget.calls > 0
    /\ agents[s][active[s]].kind = kind
    /\ tool \in ToolsOf(agents[s][active[s]])

\* A tool call that runs to its return without suspending
ToolReturn(s, ud, ags, ds, log) ==
    /\ userdata' = ud
    /\ agents' = [agents EXCEPT ![s] = ags]
    /\ turn' = [turn EXCEPT ![s].left = @ - 1, ![s].directives = ds]
    /\ callLog' = [callLog EXCEPT ![s] = log]
    /\ result' = [result EXCEPT ![s] = "ok"]
    /\ budget' = [budget EXCEPT !.calls = @ - 1]
    /\ UNCHANGED <<jobs, room, active, activated, chat_ctx, speech, sf,
                   deletes, handoff>>

\* A tool name the active agent does not expose: UnknownTool goes back to the
\* generation stage and nothing else changes
UnknownTool(s, tool) ==
    /\ room[s] = "open"
    /\ turn[s].open
    /\ turn[s].left > 0
    /\ sf[s].pc = "idle"
    /\ budget.calls > 0
    /\ tool \in AllTools \ ToolsOf(agents[s][active[s]])
    /\ turn' = [turn EXCEPT ![s].left = @ - 1]
    /\ result' = [result EXCEPT ![s] = "UnknownTool"]
    /\ budget' = [budget EXCEPT !.calls = @ - 1]
    /\ UNCHANGED <<jobs, room, userdata, agents, active, activated, chat_ctx,
                   speech, sf, deletes, callLog, handoff>>

\* ------------------------------------------------------ state-mutating tools
AppendCharacter_Prepend(ud, s, c) ==
    [ud EXCEPT ![s].characters = <<c>> \o @]

AppendCharacter_SharedList(ud, s, c) ==
    [t \in Sessions |-> [ud[t] EXCEPT !.characters = Append(@, c)]]

\* main.py:99 and main.py:209: context.userdata.characters.append(character)
AppendCharacter(ud, s, c) ==
    [ud EXCEPT ![s].characters = Append(@, c)]

AppendLocation_SkipDuplicate(ud, s, l) ==
    IF \E i \in 1..Len(ud[s].locations) : ud[s].locations[i] = l THEN ud
    ELSE [ud EXCEPT ![s].locations = Append(@, l)]

\* main.py:117 and main.py:227: context.userdata.locations.append(location)
AppendLocation(ud, s, l) ==
    [ud EXCEPT ![s].locations = Append(@, l)]

\* main.py:135 and main.py:245: context.userdata.theme = theme
SetTheme(ud, s, th) ==
    [ud EXCEPT ![s].theme = th]

LogCharacter(s, c) == [callLog[s] EXCEPT !.characters = Append(@, c)]
LogLocation(s, l) == [callLog[s] EXCEPT !.locations = Append(@, l)]
LogTheme(s, th) == [callLog[s] EXCEPT !.theme = th]

\* main.py:84-103
LeadCharacterIntroduction(s, name, background) ==
    /\ CanCall(s, "lead", "character_introduction")
    /\ LET character == CharacterData(name, background)
       IN ToolReturn(s, AppendCharacter(userdata, s, character), agents[s],
                     turn[s].directives, LogCharacter(s, character))

\* main.py:105-121
LeadLocationIntroduction(s, location) ==
    /\ CanCall(s, "lead", "location_introduction")
    /\ ToolReturn(s, AppendLocation(userdata, s, location), agents[s],
                  turn[s].directives, LogLocation(s, location))

\* main.py:123-139
LeadThemeIntroduction(s, theme) ==
    /\ CanCall(s, "lead", "theme_introduction")
    /\ ToolReturn(s, SetTheme(userdata, s, theme), agents[s],
                  turn[s].directives, LogTheme(s, theme))

\* main.py:194-213
SpecialistCharacterIntroduction(s, name, background) ==
    /\ CanCall(s, "specialist", "character_introduction")
    /\ LET character == CharacterData(name, background)
       IN ToolReturn(s, AppendCharacter(userdata, s, character), agents[s],
                     turn[s].directives, LogCharacter(s, character))

\* main.py:215-231
SpecialistLocationIntroduction(s, location) ==
    /\ CanCall(s, "specialist", "location_introduction")
    /\ ToolReturn(s, AppendLocation(userdata, s, location), agents[s],
                  turn[s].directives, LogLocation(s, location))

\* main.py:233-249
SpecialistThemeIntroduction(s, theme) ==
    /\ CanCall(s, "specialist", "theme_introduction")
    /\ ToolReturn(s, SetTheme(userdata, s, theme), agents[s],
                  turn[s].directives, LogTheme(s, theme))

\* ------------------------------------------------------------ handoff tools
\* The directive a handoff tool returns: the new agent and the announcement
Directive(agent, announcement) ==
    [agent |-> agent, announcement |-> announcement]

DetectedChildrensBook_ReturnsSelf(s) ==
    /\ CanCall(s, "lead", "detected_childrens_book")
    /\ LET childrens_editor ==
               SpecialistEditorAgent("children's books", chat_ctx[s])
       IN ToolReturn(s, userdata, Append(agents[s], childrens_editor),
                     Append(turn[s].directives,
                            Directive(active[s], Announcement)),
                     callLog[s])

\* main.py:141-157
DetectedChildrensBook(s) ==
    /\ CanCall(s, "lead", "detected_childrens_book")
    /\ LET childrens_editor ==
               SpecialistEditorAgent("children's books", chat_ctx[s])
       IN ToolReturn(s, userdata, Append(agents[s], childrens_editor),
                     Append(turn[s].directives,
                            Directive(Len(agents[s]) + 1, Announcement)),
                     callLog[s])

DetectedNovel_ResetsState(s) ==
    /\ CanCall(s, "lead", "detected_novel")
    /\ LET childrens_editor == SpecialistEditorAgent("novels", chat_ctx[s])
       IN ToolReturn(s, [userdata EXCEPT ![s] = StoryData],
                     Append(agents[s], childrens_editor),
                     Append(turn[s].directives,
                            Directive(Len(agents[s]) + 1, Announcement)),
                     callLog[s])

DetectedNovel_NoAnnouncement(s) ==
    /\ CanCall(s, "lead", "detected_novel")
    /\ LET childrens_editor == SpecialistEditorAgent("novels", chat_ctx[s])
       IN ToolReturn(s, userdata, Append(agents[s], childrens_editor),
                     Append(turn[s].directives,
                            Directive(Len(agents[s]) + 1, None)),
                     callLog[s])

DetectedNovel_SameSpecialty(s) ==
    /\ CanCall(s, "lead", "detected_novel")
    /\ LET childrens_editor ==
               SpecialistEditorAgent("children's books", chat_ctx[s])
       IN ToolReturn(s, userdata, Append(agents[s], childrens_editor),
                     Append(turn[s].directives,
                            Directive(Len(agents[s]) + 1, Announcement)),
                     callLog[s])

\* main.py:159-175
DetectedNovel(s) ==
    /\ CanCall(s, "lead", "detected_novel")
    /\ LET childrens_editor == SpecialistEditorAgent("novels", chat_ctx[s])
       IN ToolReturn(s, userdata, Append(agents[s], childrens_editor),
                     Append(turn[s].directives,
                            Directive(Len(agents[s]) + 1, Announcement)),
                     callLog[s])

\* ------------------------------------------------------ handoff controller
ChosenDirective_Last(ds) == ds[Len(ds)]

\* Several handoff directives in one turn: the first in issuance order wins
ChosenDirective(ds) == Head(ds)

\* The announcement is queued as a spoken turn when the directive has one
Announce(sp, d) ==
    IF d.announcement = None THEN sp
    ELSE GenerateReply(sp, AnnouncementTurn(d.agent))

\* The history the new agent sees: what it was seeded with, then the
\* announcement turn
VisibleHistory(agent, d) ==
    IF d.announcement = None THEN agent.chat_ctx
    ELSE Append(agent.chat_ctx, "announcement")

\* The turn's tool calls have all returned.  Without a directive the turn is
\* over; with one, the handoff is applied: the target becomes the active
\* agent, the announcement is queued, then the new agent's on_enter runs
EndTurn(s) ==
    /\ room[s] = "open"
    /\ turn[s].open
    /\ turn[s].left = 0
    /\ sf[s].pc = "idle"
    /\ turn' = [turn EXCEPT ![s] = NoTurn]
    /\ IF turn[s].directives = <<>>
       THEN UNCHANGED <<active, activated, chat_ctx, speech, handoff>>
       ELSE LET d == ChosenDirective(turn[s].directives)
                visible == VisibleHistory(agents[s][d.agent], d)
            IN /\ active' = [active EXCEPT ![s] = d.agent]
               /\ activated' = [activated EXCEPT ![s] = Append(@, d.agent)]
               /\ chat_ctx' = [chat_ctx EXCEPT ![s] = visible]
               /\ speech' = [speech EXCEPT ![s] =
                      IF agents[s][d.agent].kind = "lead"
                      THEN LeadOnEnter(Announce(@, d), d.agent)
                      ELSE SpecialistOnEnter(Announce(@, d), d.agent)]
               /\ handoff' = [handoff EXCEPT ![s] =
                      [lead |-> chat_ctx[s], visible |-> visible,
                       directives |-> turn[s].directives,
                       recorded |-> callLog[s]]]
    /\ UNCHANGED <<jobs, room, userdata, agents, sf, deletes, result, budget,
                   callLog>>

\* ------------------------------------------------------------ terminal tool
\* main.py:261-263: the goodbye reply, with the allow_interruptions it is given
Farewell(a) == [kind |-> "farewell", agent |-> a, allow_interruptions |-> TRUE]

StoryFinished_OnAnyAgent(s) ==
    /\ room[s] = "open"
    /\ turn[s].open
    /\ turn[s].left > 0
    /\ sf[s].pc = "idle"
    /\ budget.calls > 0
    /\ speech' = [speech EXCEPT ![s] =
           GenerateReply(Interrupt(@), Farewell(active[s]))]
    /\ sf' = [sf EXCEPT ![s] = [pc |-> "await_reply",
                               log |-> <<"interrupt", "farewell_start">>,
                               farewell |-> "playing",
                               outcome |-> "none",
                               quiet |-> speech[s].queue = <<>>]]
    /\ turn' = [turn EXCEPT ![s].left = @ - 1]
    /\ budget' = [budget EXCEPT !.calls = @ - 1]
    /\ UNCHANGED <<jobs, room, userdata, agents, active, activated, chat_ctx,
                   deletes, result, callLog, handoff>>

\* main.py:251-263: interrupt(), then generate_reply(...) is awaited
StoryFinished(s) ==
    /\ CanCall(s, "specialist", "story_finished")
    /\ speech' = [speech EXCEPT ![s] =
           GenerateReply(Interrupt(@), Farewell(active[s]))]
    /\ sf' = [sf EXCEPT ![s] = [pc |-> "await_reply",
                               log |-> <<"interrupt", "farewell_start">>,
                               farewell |-> "playing",
                               outcome |-> "none",
                               quiet |-> speech[s].queue = <<>>]]
    /\ turn' = [turn EXCEPT ![s].left = @ - 1]
    /\ budget' = [budget EXCEPT !.calls = @ - 1]
    /\ UNCHANGED <<jobs, room, userdata, agents, active, activated, chat_ctx,
                   deletes, result, callLog, handoff>>

StoryFinishedDeleteRoom_OnlyPlayedOut(s) ==
    /\ room[s] = "open"
    /\ sf[s].pc = "await_reply"
    /\ sf[s].farewell = "completed"
    /\ sf' = [sf EXCEPT ![s].pc = "await_delete",
                        ![s].log = Append(@, "delete_room")]
    /\ deletes' = [deletes EXCEPT ![s] = @ + 1]
    /\ UNCHANGED <<jobs, room, userdata, agents, active, activated, chat_ctx,
                   speech, turn, result, budget, callLog, handoff>>

\* main.py:265-266: the awaited reply is done (played out or cut short), the
\* coroutine resumes and requests delete_room
StoryFinishedDeleteRoom(s) ==
    /\ room[s] = "open"
    /\ sf[s].pc = "await_reply"
    /\ sf[s].farewell \in {"completed", "interrupted"}
    /\ sf' = [sf EXCEPT ![s].pc = "await_delete",
                        ![s].log = Append(@, "delete_room")]
    /\ deletes' = [deletes EXCEPT ![s] = @ + 1]
    /\ UNCHANGED <<jobs, room, userdata, agents, active, activated, chat_ctx,
                   speech, turn, result, budget, callLog, handoff>>

\* main.py:266: delete_room succeeds; the room is gone and the session ends
DeleteRoomOk(s) ==
    /\ room[s] = "open"
    /\ sf[s].pc = "await_delete"
    /\ room' = [room EXCEPT ![s] = "deleted"]
    /\ sf' = [sf EXCEPT ![s].pc = "idle", ![s].outcome = "deleted"]
    /\ result' = [result EXCEPT ![s] = "ok"]
    /\ UNCHANGED <<jobs, userdata, agents, active, activated, chat_ctx, speech,
                   turn, deletes, budget, callLog, handoff>>

\* main.py:266: delete_room raises; nothing in story_finished catches it, so
\* the exception leaves the tool and the router reports the tool as failed;
\* the room stays open and the session goes on
DeleteRoomFail(s) ==
    /\ room[s] = "open"
    /\ sf[s].pc = "await_delete"
    /\ sf' = [sf EXCEPT ![s].pc = "idle", ![s].outcome = "failed"]
    /\ result' = [result EXCEPT ![s] = "raised"]
    /\ UNCHANGED <<jobs, room, userdata, agents, active, activated, chat_ctx,
                   speech, turn, deletes, budget, callLog, handoff>>

\* ------------------------------------------------------- replies and the user
\* Replies and user turns are serialized with the tool calls of a turn: they
\* move only between turns or while story_finished waits for its reply
Serialized(s) == ~turn[s].open \/ sf[s].pc = "await_reply"

\* The reply at the head of the queue is played out
SpeechDone(s) ==
    /\ room[s] = "open"
    /\ Serialized(s)
    /\ speech[s].queue /= <<>>
    /\ LET h == Head(speech[s].queue)
       IN /\ speech' = [speech EXCEPT ![s] = Finish(@)]
          /\ chat_ctx' = [chat_ctx EXCEPT ![s] =
                 IF h.kind = "announcement" THEN @ ELSE Append(@, "assistant")]
          /\ sf' = [sf EXCEPT ![s] =
                 IF h.kind = "farewell"
                 THEN [@ EXCEPT !.farewell = "completed",
                                !.log = Append(@, "farewell_completed")]
                 ELSE @]
    /\ UNCHANGED <<jobs, room, userdata, agents, active, activated, turn,
                   deletes, result, budget, callLog, handoff>>

\* The user speaks: the utterance joins the history, it cuts the playing reply
\* short when that reply allows interruptions, and the active agent answers
UserSpeech(s) ==
    /\ room[s] = "open"
    /\ Serialized(s)
    /\ s \in Speakers
    /\ budget.user > 0
    /\ budget' = [budget EXCEPT !.user = @ - 1]
    /\ chat_ctx' = [chat_ctx EXCEPT ![s] = Append(@, "user")]
    /\ LET q == speech[s].queue
           cut == q /= <<>> /\ Head(q).allow_interruptions
       IN /\ speech' = [speech EXCEPT ![s] =
                 GenerateReply(IF cut THEN Finish(@) ELSE @, Reply(active[s]))]
          /\ sf' = [sf EXCEPT ![s] =
                 IF cut /\ Head(q).kind = "farewell"
                 THEN [@ EXCEPT !.farewell = "interrupted",
                                !.log = Append(@, "farewell_interrupted")]
                 ELSE @]
    /\ UNCHANGED <<jobs, room, userdata, agents, active, activated, turn,
                   deletes, result, callLog, handoff>>

\* The phase of the termination gate the session is in
Phase(s) ==
    CASE room[s] = "none" -> "NotStarted"
      [] room[s] = "deleted" -> "Closed"
      [] sf[s].pc = "await_reply" -> "Farewelling"
      [] sf[s].pc = "await_delete" -> "Closed"
      [] OTHER -> "Active"

Next == \E s \in Sessions :
    \/ Entrypoint(s)
    \/ \E n \in 1..MaxTurnLen : ModelTurn(s, n)
    \/ \E tool \in AllTools : UnknownTool(s, tool)
    \/ \E name \in NameArgs, background \in BackgroundArgs :
           LeadCharacterIntroduction(s, name, background)
    \/ \E location \in LocationArgs : LeadLocationIntroduction(s, location)
    \/ \E theme \in ThemeArgs : LeadThemeIntroduction(s, theme)
    \/ \E name \in NameArgs, background \in BackgroundArgs :
           SpecialistCharacterIntroduction(s, name, background)
    \/ \E location \in LocationArgs : SpecialistLocationIntroduction(s, location)
    \/ \E theme \in ThemeArgs : SpecialistThemeIntroduction(s, theme)
    \/ DetectedChildrensBook(s)
    \/ DetectedNovel(s)
    \/ EndTurn(s)
    \/ StoryFinished(s)
    \/ StoryFinishedDeleteRoom(s)
    \/ DeleteRoomOk(s)
    \/ DeleteRoomFail(s)
    \/ SpeechDone(s)
    \/ UserSpeech(s)

Spec == Init /\ [][Next]_vars

SpecConc == InitConc /\ [][Next]_vars

\* One job under the scheduling the code relies on: a reply that has started
\* eventually completes unless it is cut short first, and a coroutine whose
\* awaited reply has returned is eventually resumed by the event loop
SpecLive ==
    /\ Init
    /\ [][Next]_vars
    /\ \A s \in Sessions :
           WF_vars(SpeechDone(s)) /\ WF_vars(StoryFinishedDeleteRoom(s))

\* ------------------------------------------------------------------ claims
IsPrefix(p, q) == Len(p) <= Len(q) /\ SubSeq(q, 1, Len(p)) = p

HandedOff(s) == Len(activated[s]) >= 2

\* C1: a run of story_finished produces, in this order and nothing else,
\* the interrupt, the start of the farewell, the farewell played out to its
\* end, and the delete_room request: its events are always a prefix of that
\* sequence
C1_TerminalOrder ==
    \A s \in Sessions :
        IsPrefix(sf[s].log, <<"interrupt", "farewell_start",
                              "farewell_completed", "delete_room">>)

\* C2: the farewell of story_finished cannot be interrupted: it is queued
\* with interruptions disallowed, user speech never cuts it short, and
\* delete_room is requested only after it has been played out
C2_FarewellNotInterruptible ==
    \A s \in Sessions :
        /\ \A i \in 1..Len(speech[s].queue) :
               speech[s].queue[i].kind = "farewell"
                   => ~speech[s].queue[i].allow_interruptions
        /\ sf[s].farewell /= "interrupted"
        /\ sf[s].pc = "await_delete" => sf[s].farewell = "completed"

\* C3: a failed delete_room is swallowed: it does not leave story_finished
\* as an error, delete_room is requested at most once in the session, and
\* the session is Closed and not back in Farewelling or Active
C3_TeardownFailureSwallowed ==
    \A s \in Sessions :
        /\ deletes[s] <= 1
        /\ sf[s].outcome = "failed" =>
               /\ result[s] /= "raised"
               /\ Phase(s) = "Closed"

\* C4: when the turn that handed the session off returned two or more
\* handoff directives, the active agent is the target of the first of them,
\* and exactly one agent was made active by the turn
C4_FirstDirectiveWins ==
    \A s \in Sessions :
        Len(handoff[s].directives) >= 2 =>
            /\ active[s] = handoff[s].directives[1].agent
            /\ activated[s] = <<1, handoff[s].directives[1].agent>>

C4_Witness ==
    \E s \in Sessions :
        /\ Len(handoff[s].directives) >= 2
        /\ agents[s][handoff[s].directives[1].agent].specialty
               /= agents[s][handoff[s].directives[2].agent].specialty
        /\ active[s] = 2

\* C5: a started session has exactly one active agent, which is the agent
\* activated last; no agent instance is activated twice; and after a handoff
\* every turn, and so every tool call, belongs to the new agent, never to
\* the lead editor
C5_OneActiveAgent ==
    \A s \in Sessions :
        /\ room[s] /= "none" =>
               /\ active[s] \in 1..Len(agents[s])
               /\ activated[s] /= <<>>
               /\ active[s] = activated[s][Len(activated[s])]
        /\ \A i, j \in 1..Len(activated[s]) :
               i /= j => activated[s][i] /= activated[s][j]
        /\ turn[s].open => turn[s].agent = active[s]
        /\ HandedOff(s) => agents[s][active[s]].kind = "specialist"
        /\ HandedOff(s) /\ turn[s].open =>
               agents[s][turn[s].agent].kind = "specialist"

C5_Witness ==
    \E s \in Sessions :
        /\ HandedOff(s)
        /\ turn[s].open
        /\ turn[s].left = 0
        /\ result[s] = "ok"

\* C6: after a handoff the session still has the one state record: what the
\* lead editor recorded is still there, unchanged and in order, as the front
\* of the lists, and what the specialist records is appended behind it
C6_StateSurvivesHandoff ==
    \A s \in Sessions :
        HandedOff(s) =>
            /\ IsPrefix(handoff[s].recorded.characters, userdata[s].characters)
            /\ IsPrefix(handoff[s].recorded.locations, userdata[s].locations)
            /\ userdata[s].characters =
                   handoff[s].recorded.characters \o
                   SubSeq(callLog[s].characters,
                          Len(handoff[s].recorded.characters) + 1,
                          Len(callLog[s].characters))
            /\ userdata[s].locations =
                   handoff[s].recorded.locations \o
                   SubSeq(callLog[s].locations,
                          Len(handoff[s].recorded.locations) + 1,
                          Len(callLog[s].locations))
            /\ callLog[s].theme = handoff[s].recorded.theme
                   => userdata[s].theme = handoff[s].recorded.theme

C6_Witness ==
    \E s \in Sessions :
        /\ HandedOff(s)
        /\ Len(handoff[s].recorded.characters) = 1
        /\ Len(userdata[s].characters) = 2
        /\ userdata[s].characters[1] /= userdata[s].characters[2]

\* C7: of the turns spoken under a new agent the first is the handoff
\* announcement, and a reply the specialist generates itself starts only
\* after the announcement has started
C7_AnnouncementFirst ==
    \A s \in Sessions :
        LET p == speech[s].played
        IN \A i \in 1..Len(p) :
               /\ (p[i].agent /= 1 /\ \A j \in 1..(i - 1) : p[j].agent = 1)
                      => p[i].kind = "announcement"
               /\ (p[i].agent /= 1 /\ p[i].kind = "reply")
                      => \E j \in 1..(i - 1) :
                             /\ p[j].kind = "announcement"
                             /\ p[j].agent = p[i].agent

C7_Witness ==
    \E s \in Sessions :
        LET p == speech[s].played
        IN \E i \in 1..Len(p) : p[i].agent /= 1 /\ p[i].kind = "reply"

\* C8: the history the specialist sees when it becomes active is the lead
\* editor's history at the handoff followed by the one announcement turn
C8_HistoryPlusAnnouncement ==
    \A s \in Sessions :
        HandedOff(s) =>
            /\ Len(handoff[s].visible) = Len(handoff[s].lead) + 1
            /\ SubSeq(handoff[s].visible, 1, Len(handoff[s].lead))
                   = handoff[s].lead

C8_Witness ==
    \E s \in Sessions :
        /\ HandedOff(s)
        /\ Len(handoff[s].lead) >= 2
        /\ handoff[s].lead[1] /= handoff[s].lead[2]

\* C9: the characters list is always the sequence of character_introduction
\* arguments in call order and the locations list that of
\* location_introduction, and no step removes or reorders an entry: each
\* list before a step is a prefix of the list after it
C9_Additive ==
    /\ [](\A s \in Sessions :
              /\ userdata[s].characters = callLog[s].characters
              /\ userdata[s].locations = callLog[s].locations)
    /\ [][\A s \in Sessions :
              /\ IsPrefix(userdata[s].characters, userdata'[s].characters)
              /\ IsPrefix(userdata[s].locations, userdata'[s].locations)]_vars

C9_Witness ==
    \E s \in Sessions :
        /\ Len(userdata[s].characters) = 2
        /\ userdata[s].characters[1] /= userdata[s].characters[2]
        /\ Len(userdata[s].locations) = 1

\* C10: a session starts with a state record of its own with empty lists,
\* and no step changes the state of two sessions: whatever one session does,
\* the state record, the agents, the history, the replies and the
\* termination phase of every other session stay as they were
SessionState(s) ==
    <<room[s], userdata[s], agents[s], active[s], activated[s], chat_ctx[s],
      speech[s], turn[s], sf[s], deletes[s], result[s]>>

C10_SessionsIsolated ==
    [][/\ \A s \in Sessions :
              (room[s] = "none" /\ room'[s] = "open")
                  => userdata'[s] = [characters |-> <<>>, locations |-> <<>>,
                                     theme |-> None]
       /\ \A s, t \in Sessions :
              s /= t => \/ SessionState(s)' = SessionState(s)
                        \/ SessionState(t)' = SessionState(t)]_vars

C10_Witness ==
    \E s, t \in Sessions :
        /\ s /= t
        /\ HandedOff(s)
        /\ room[t] = "open"
        /\ userdata[t].characters /= <<>>
        /\ userdata[s].characters = <<>>

\* C11: Closed is terminal: once delete_room has been requested in a
\* session, no step of that session generates a reply, starts a turn or
\* executes a tool, changes the state record or applies a handoff
C11_ClosedIsTerminal ==
    [][\A s \in Sessions :
           deletes[s] > 0 =>
               /\ Len(speech'[s].queue) <= Len(speech[s].queue)
               /\ speech'[s].played = speech[s].played
               /\ turn'[s].left = turn[s].left \/ result'[s] = "UnknownTool"
               /\ userdata'[s] = userdata[s]
               /\ active'[s] = active[s]]_vars

\* Replies of a session that have started and not yet ended
Playing(s) == Len(speech[s].played) - speech[s].ended

C13_InterruptIdleNoOp ==
    [][\A s \in Sessions :
           (sf[s].pc = "idle" /\ sf'[s].pc = "await_reply"
                /\ speech[s].queue = <<>>)
               => /\ speech'[s] = [speech[s] EXCEPT
                          !.queue = <<Farewell(active[s])>>,
                          !.played = Append(@, Farewell(active[s]))]
                  /\ Interrupt(speech[s]) = speech[s]]_vars

C13_Witness ==
    \E s \in Sessions :
        /\ sf[s].quiet
        /\ sf[s].farewell = "completed"
        /\ sf[s].pc = "await_delete"
        /\ deletes[s] = 2

\* A tool call of session s is waiting to be resolved by the router
CallPending(s) ==
    /\ room[s] = "open"
    /\ turn[s].open
    /\ turn[s].left > 0
    /\ sf[s].pc = "idle"
    /\ budget.calls > 0

ActiveKind(s) == agents[s][active[s]].kind

\* C14: a tool call is resolved against the active agent's tools only.  With
\* a call pending, story_finished can only be answered with UnknownTool
\* while the lead editor is active, and detected_childrens_book and
\* detected_novel only so while the specialist is active; no resolved call
\* runs story_finished under the lead or a handoff tool under the
\* specialist; and an UnknownTool answer leaves the state record, the
\* agents, the active agent and the phase (Active) as they were, with the
\* turn going on
C14_UnknownTool ==
    /\ [](\A s \in Sessions :
              CallPending(s) =>
                  /\ ActiveKind(s) = "lead" =>
                         /\ ENABLED UnknownTool(s, "story_finished")
                         /\ ~ENABLED StoryFinished(s)
                  /\ ActiveKind(s) = "specialist" =>
                         /\ ENABLED UnknownTool(s, "detected_childrens_book")
                         /\ ENABLED UnknownTool(s, "detected_novel")
                         /\ ~ENABLED DetectedChildrensBook(s)
                         /\ ~ENABLED DetectedNovel(s))
    /\ [][\A s \in Sessions :
              turn'[s].left < turn[s].left =>
                  /\ ActiveKind(s) = "lead" =>
                         sf'[s] = sf[s] /\ speech'[s] = speech[s]
                  /\ ActiveKind(s) = "specialist" =>
                         /\ agents'[s] = agents[s]
                         /\ turn'[s].directives = <<>>
                  /\ (\E tool \in AllTools : UnknownTool(s, tool)) =>
                         /\ result'[s] = "UnknownTool"
                         /\ userdata'[s] = userdata[s]
                         /\ agents'[s] = agents[s]
                         /\ active'[s] = active[s]
                         /\ Phase(s) = "Active"
                         /\ Phase(s)' = "Active"
                         /\ turn'[s].open]_vars

C14_Witness ==
    \E s \in Sessions :
        /\ HandedOff(s)
        /\ result[s] = "UnknownTool"
        /\ turn[s].open
        /\ userdata[s].characters /= <<>>

HandoffEffect(s, specialty) ==
    /\ agents'[s] = Append(agents[s],
                           SpecialistEditorAgent(specialty, chat_ctx[s]))
    /\ turn'[s].directives =
           Append(turn[s].directives,
                  Directive(Len(agents[s]) + 1, Announcement))
    /\ turn'[s].left = turn[s].left - 1
    /\ result'[s] = "ok"
    /\ budget' = [budget EXCEPT !.calls = @ - 1]
    /\ UNCHANGED <<jobs, room, userdata, active, activated, chat_ctx, speech,
                   sf, deletes, callLog, handoff>>

\* C17: detected_childrens_book and detected_novel are the same operation up
\* to the specialty: each is available exactly when the other is, and each
\* has the handoff effect, the first for "children's books" and the second
\* for "novels"
C17_HandoffToolsEquivalent ==
    /\ [](\A s \in Sessions :
              ENABLED DetectedChildrensBook(s) <=> ENABLED DetectedNovel(s))
    /\ [][\A s \in Sessions :
              /\ DetectedChildrensBook(s) =>
                     HandoffEffect(s, "children's books")
              /\ DetectedNovel(s) => HandoffEffect(s, "novels")]_vars

C17_Witness ==
    \E s \in Sessions :
        /\ Len(agents[s]) = 3
        /\ agents[s][2].specialty = "novels"
        /\ agents[s][3].specialty = "children's books"
        /\ agents[s][2].chat_ctx = agents[s][3].chat_ctx
        /\ Len(turn[s].directives) = 2
        /\ turn[s].directives[1].announcement
               = turn[s].directives[2].announcement

\* C18: the agent chain is one-way.  A started session was entered by the
\* lead editor; the active agent changes at most once, from the lead to a
\* specialist, and never back; and the room is deleted only after that
\* handoff, by the specialist
C18_OneWayChain ==
    /\ [](\A s \in Sessions :
              room[s] /= "none" =>
                  /\ activated[s] /= <<>>
                  /\ agents[s][activated[s][1]].kind = "lead"
                  /\ Len(activated[s]) <= 2
                  /\ active[s] = activated[s][Len(activated[s])]
                  /\ Len(activated[s]) = 2 =>
                         agents[s][activated[s][2]].kind = "specialist"
                  /\ deletes[s] > 0 => Len(activated[s]) = 2)
    /\ [][\A s \in Sessions :
              /\ IsPrefix(activated[s], activated'[s])
              /\ room[s] /= "none" =>
                     /\ ActiveKind(s) = "specialist" =>
                            active'[s] = active[s]
                     /\ deletes'[s] > deletes[s] =>
                            ActiveKind(s) = "specialist"]_vars

C18_Witness ==
    \E s \in Sessions :
        /\ activated[s] = <<1, 2>>
        /\ room[s] = "deleted"
        /\ agents[s][1].kind = "lead"
        /\ agents[s][2].kind = "specialist"

\* C19: each state-mutating tool changes only its own field.  The theme is
\* always the argument of the most recent theme_introduction (unset if there
\* was none), and theme_introduction leaves characters and locations alone;
\* character_introduction adds exactly one entry to characters and
\* location_introduction exactly one to locations, a repeated value
\* included, each leaving the other two fields alone; the handoff tools and
\* every step of story_finished leave the state record as it was
C19_FrameEffects ==
    /\ [](\A s \in Sessions : userdata[s].theme = callLog[s].theme)
    /\ [][\A s \in Sessions :
              /\ \A theme \in ThemeArgs :
                     (LeadThemeIntroduction(s, theme)
                          \/ SpecialistThemeIntroduction(s, theme))
                         => /\ userdata'[s].theme = theme
                            /\ userdata'[s].characters = userdata[s].characters
                            /\ userdata'[s].locations = userdata[s].locations
              /\ \A name \in NameArgs, background \in BackgroundArgs :
                     (LeadCharacterIntroduction(s, name, background)
                          \/ SpecialistCharacterIntroduction(s, name, background))
                         => /\ Len(userdata'[s].characters)
                                   = Len(userdata[s].characters) + 1
                            /\ userdata'[s].characters[Len(userdata'[s].characters)]
                                   = CharacterData(name, background)
                            /\ userdata'[s].locations = userdata[s].locations
                            /\ userdata'[s].theme = userdata[s].theme
              /\ \A location \in LocationArgs :
                     (LeadLocationIntroduction(s, location)
                          \/ SpecialistLocationIntroduction(s, location))
                         => /\ Len(userdata'[s].locations)
                                   = Len(userdata[s].locations) + 1
                            /\ userdata'[s].locations[Len(userdata'[s].locations)]
                                   = location
                            /\ userdata'[s].characters = userdata[s].characters
                            /\ userdata'[s].theme = userdata[s].theme
              /\ (DetectedChildrensBook(s) \/ DetectedNovel(s)
                      \/ StoryFinished(s) \/ StoryFinishedDeleteRoom(s)
                      \/ DeleteRoomOk(s) \/ DeleteRoomFail(s))
                     => userdata' = userdata]_vars

C19_Witness ==
    \E s \in Sessions :
        /\ Len(userdata[s].locations) = 2
        /\ userdata[s].locations[1] = userdata[s].locations[2]
        /\ userdata[s].theme /= None
        /\ userdata[s].characters = <<>>

\* C20: once story_finished has been invoked and waits for its farewell, the
\* farewell eventually returns and the room delete request is issued; the
\* session does not stay in Farewelling forever
C20_FarewellingEnds ==
    \A s \in Sessions :
        (sf[s].pc = "await_reply") ~> (sf[s].pc = "await_delete")

C20_Witness ==
    \E s \in Sessions :
        /\ sf[s].pc = "await_delete"
        /\ sf[s].farewell = "interrupted"
        /\ sf[s].log = <<"interrupt", "farewell_start",
                         "farewell_interrupted", "delete_room">>
        /\ deletes[s] = 1
====
